---- MODULE Spec2Model ----
(***************************************************************************)
(* Model of src/app.py: the Flask handlers /chat, /recommend and           *)
(* /interaction over the module-level tables (kb, tfidf_kb, materials) and *)
(* the three MongoDB collections (chats, material_access,                  *)
(* user_interactions).                                                     *)
(*                                                                         *)
(* Similarity scores and the threshold are floats in the program; here     *)
(* they are integers on a common scale (only their order is ever used).    *)
(* Timestamps are never read by the program and are left out of the        *)
(* stored documents.                                                       *)
(***************************************************************************)
EXTENDS Integers, Sequences, FiniteSets, Bags

\* ---------------------------------------------------------------- bounds
MaxKB == 4          \* knowledge bases of 0..MaxKB entries
MaxScore == 2       \* similarity scores 0..MaxScore, thresholds 0..MaxScore+1
MaxChats == 1       \* documents kept in the chats collection
MaxCatalog == 2     \* catalogs of 0..MaxCatalog materials
MaxEvents == 2      \* documents kept in material_access
MaxNum == 2         \* /recommend is asked for 1..MaxNum materials

Viewers == {"u1"}                 \* users who post to /chat and /interaction
Users == Viewers \cup {"anonymous"} \* users who ask for recommendations
Tags == {"go", "python"}
Scores == 0..MaxScore
Thresholds == 0..(MaxScore + 1)
VALID_MESSAGE == "how do I reset my password"

VARIABLES
    kb,                 \* line 29: the loaded knowledge base
    tfidf_kb,           \* lines 34-42: "built" or "None"
    CHAT_SIM_THRESHOLD, \* line 14
    similarity,         \* lines 74-75: the scores of VALID_MESSAGE against the
                        \* index, fixed once the index is built
    materials,          \* line 45: the loaded catalog
    chats,              \* mongo.db.chats
    material_access,    \* mongo.db.material_access
    user_interactions,  \* mongo.db.user_interactions
    chat_call,          \* locals and reply of the last /chat call
    rec_call,           \* locals and reply of the last /recommend call
    int_call            \* locals and reply of the last /interaction call

vars == <<kb, tfidf_kb, CHAT_SIM_THRESHOLD, similarity, materials, chats,
          material_access, user_interactions, chat_call, rec_call, int_call>>

\* ---------------------------------------------------------------- helpers
Min(a, b) == IF a <= b THEN a ELSE b
Max(a, b) == IF a >= b THEN a ELSE b

Reverse(s) == [i \in 1..Len(s) |-> s[Len(s) + 1 - i]]

Take(s, n) == SubSeq(s, 1, Min(Max(n, 0), Len(s)))

Range(s) == {s[i] : i \in 1..Len(s)}

\* ---------------------------------------------------------------- /chat
kb_questions == [i \in 1..Len(kb) |-> kb[i].question]
kb_answers == [i \in 1..Len(kb) |-> kb[i].answer]

SORRY == "Sorry, I couldn't find an answer."
NO_MATCH == "I couldn't find a direct match in the knowledge base."
NLP_ERROR == "Internal NLP error - fallback response."

\* numpy argmax: the first position holding the maximum (positions are 1-based
\* here, and 0 stands for the program's -1).
argmax(sims) ==
    IF Len(sims) > 0
    THEN CHOOSE i \in 1..Len(sims) :
            /\ \A j \in 1..Len(sims) : sims[j] <= sims[i]
            /\ \A j \in 1..(i - 1) : sims[j] < sims[i]
    ELSE 0

\* numpy argsort with the default kind: some order of the positions that puts
\* the scores in ascending order; the relative order of equal scores is not
\* guaranteed, so every ascending order is a possible result.
RECURSIVE AscendingOrders(_, _)
AscendingOrders(sims, remaining) ==
    IF remaining = {}
    THEN {<<>>}
    ELSE UNION {{<<i>> \o rest : rest \in AscendingOrders(sims, remaining \ {i})} :
                i \in {j \in remaining : \A k \in remaining : sims[j] <= sims[k]}}

argsort(sims) == AscendingOrders(sims, 1..Len(sims))

\* variant: every entry is listed, the cap of three is dropped
top_n_Uncapped(sims) == Len(sims)

top_n(sims) == Min(3, Len(sims))

TopIdx(sims, order) == Take(Reverse(order), top_n(sims))

TopMatches(sims, top_idx) ==
    [k \in 1..Len(top_idx) |->
        [question |-> kb_questions[top_idx[k]], score |-> sims[top_idx[k]]]]

\* variant: the threshold itself no longer counts as a match
MeetsThreshold_Strict(best_idx, best_score) ==
    best_idx >= 1 /\ best_score > CHAT_SIM_THRESHOLD

MeetsThreshold(best_idx, best_score) ==
    best_idx >= 1 /\ best_score >= CHAT_SIM_THRESHOLD

NoChatCall ==
    [status |-> 0, user_id |-> "anonymous", message |-> "", raised |-> FALSE,
     sims |-> <<>>, best_idx |-> 0, best_score |-> 0, top_idx |-> <<>>,
     top_matches |-> <<>>, response |-> "", source |-> "", logged |-> FALSE]

\* lines 72-96: the reply computed from the similarity vector
ChatResolved(user_id, sims, order) ==
    LET best_idx == argmax(sims)
        best_score == IF best_idx >= 1 THEN sims[best_idx] ELSE 0
        top_idx == TopIdx(sims, order)
        hit == MeetsThreshold(best_idx, best_score)
    IN  [status |-> 200, user_id |-> user_id, message |-> VALID_MESSAGE,
         raised |-> FALSE, sims |-> sims, best_idx |-> best_idx,
         best_score |-> best_score, top_idx |-> top_idx,
         top_matches |-> TopMatches(sims, top_idx),
         response |-> IF hit THEN kb_answers[best_idx] ELSE NO_MATCH,
         source |-> IF hit THEN "kb" ELSE "fallback",
         logged |-> FALSE]

\* variant: the matches computed before the failure are still returned
ChatRaised_KeepsMatches(user_id) ==
    [NoChatCall EXCEPT !.status = 200, !.user_id = user_id,
                       !.message = VALID_MESSAGE, !.raised = TRUE,
                       !.response = NLP_ERROR, !.source = "fallback",
                       !.top_matches = TopMatches(similarity,
                            TopIdx(similarity, CHOOSE o \in argsort(similarity) : TRUE))]

\* lines 93-96: vectorization or similarity raised
ChatRaised(user_id) ==
    [NoChatCall EXCEPT !.status = 200, !.user_id = user_id,
                       !.message = VALID_MESSAGE, !.raised = TRUE,
                       !.response = NLP_ERROR, !.source = "fallback"]

\* lines 67-69 with tfidf_kb None
ChatNoIndex(user_id) ==
    [NoChatCall EXCEPT !.status = 200, !.user_id = user_id,
                       !.message = VALID_MESSAGE,
                       !.response = SORRY, !.source = "fallback"]

\* variant: the document is built from the initial reply, not the resolved one
ChatLogDoc_InitialReply(c) ==
    [user_id |-> c.user_id, message |-> c.message,
     response |-> SORRY, source |-> "fallback"]

ChatLogDoc(c) ==
    [user_id |-> c.user_id, message |-> c.message,
     response |-> c.response, source |-> c.source]

\* lines 98-111: insert_one either appends the document or raises (swallowed).
\* The collection is capped at MaxChats documents: no call is made beyond that.
ChatFinish(c) ==
    /\ Len(chats) < MaxChats
    /\ \/ /\ chats' = Append(chats, ChatLogDoc(c))
          /\ chat_call' = [c EXCEPT !.logged = TRUE]
       \/ /\ chats' = chats
          /\ chat_call' = c

ChatUnchanged ==
    UNCHANGED <<kb, tfidf_kb, CHAT_SIM_THRESHOLD, similarity, materials,
                material_access, user_interactions, rec_call, int_call>>

\* POST /chat with a message that is missing, empty or not a string
ChatBadMessage ==
    /\ chat_call' = [NoChatCall EXCEPT !.status = 400]
    /\ chats' = chats
    /\ ChatUnchanged

\* POST /chat, knowledge base index absent
ChatWithoutIndex ==
    /\ tfidf_kb = "None"
    /\ \E user_id \in Viewers : ChatFinish(ChatNoIndex(user_id))
    /\ ChatUnchanged

\* POST /chat, index present, the similarity query succeeds
ChatWithIndex ==
    /\ tfidf_kb = "built"
    /\ \E user_id \in Viewers : \E order \in argsort(similarity) :
          ChatFinish(ChatResolved(user_id, similarity, order))
    /\ ChatUnchanged

\* POST /chat, index present, the similarity query raises
ChatQueryRaises ==
    /\ tfidf_kb = "built"
    /\ \E user_id \in Viewers : ChatFinish(ChatRaised(user_id))
    /\ ChatUnchanged

QuestionText == <<"q1", "q2", "q3", "q4", "q5", "q6", "q7", "q8">>
AnswerText == <<"a1", "a2", "a3", "a4", "a5", "a6", "a7", "a8">>

\* line 29: a knowledge base of n entries, entry i being (q_i, a_i)
KBOfSize(n) == [i \in 1..n |-> [question |-> QuestionText[i], answer |-> AnswerText[i]]]


\* ---------------------------------------------------------------- /recommend
NoIntCall == [status |-> 0, user_id |-> "u1", material_id |-> "", tags |-> {}]

NoRecCall ==
    [status |-> 0, num |-> 0, user_tags |-> {},
     consulted |-> FALSE, pop_ids |-> <<>>, recommendations |-> <<>>]

\* lines 127-135: the tags of the user's stored interactions; find() raising
\* leaves the set empty
UserTags(user_id) ==
    UNION {d.tags : d \in {e \in BagToSet(user_interactions) : e.user_id = user_id}}

\* line 143
Overlap(user_tags, m) == Cardinality(user_tags \cap m.tags)

\* variant: the scored list is left in catalog order
SortByScoreDesc_Unsorted(scored, v) == scored

\* line 145: list.sort(key=score, reverse=True) is stable: entries of equal
\* score keep their order
RECURSIVE SortByScoreDesc(_, _)
SortByScoreDesc(scored, v) ==
    IF v < 0
    THEN <<>>
    ELSE SelectSeq(scored, LAMBDA x : x[1] = v) \o SortByScoreDesc(scored, v - 1)

\* lines 138-146
Personalized(user_tags, num) ==
    IF user_tags = {}
    THEN <<>>
    ELSE LET scored == [i \in 1..Len(materials) |->
                          <<Overlap(user_tags, materials[i]), materials[i]>>]
             sorted == SortByScoreDesc(scored, Cardinality(Tags))
             positive == SelectSeq(sorted, LAMBDA x : x[1] > 0)
         IN  Take([i \in 1..Len(positive) |-> positive[i][2]], num)

\* lines 151-153: $group by material_id with $sum 1
AccessIds == {d.material_id : d \in BagToSet(material_access)}
AccessCount(id) ==
    BagCardinality([d \in {e \in BagToSet(material_access) : e.material_id = id}
                      |-> material_access[d]])

\* line 153: $sort by count descending; the order of equal counts is the
\* store's choice
RECURSIVE DescendingByCount(_)
DescendingByCount(ids) ==
    IF ids = {}
    THEN {<<>>}
    ELSE UNION {{<<i>> \o rest : rest \in DescendingByCount(ids \ {i})} :
                i \in {j \in ids : \A k \in ids : AccessCount(j) >= AccessCount(k)}}

POP_LIMIT_FLOOR == 10

\* lines 151-157: the popularity pipeline, limited to max(10, num) groups
Popularity(num) ==
    {Take(order, Max(POP_LIMIT_FLOOR, num)) : order \in DescendingByCount(AccessIds)}

\* lines 163-166: the first catalog material with this id that is not yet in
\* recs (0 when there is none)
FirstMatch(pid, recs) ==
    LET hits == {i \in 1..Len(materials) :
                    materials[i].id = pid /\ materials[i] \notin Range(recs)}
    IN  IF hits = {} THEN 0 ELSE CHOOSE i \in hits : \A j \in hits : i <= j

\* variant: the popularity pass is skipped
AddPopular_Skipped(pop_ids, recs, num) == recs

\* lines 162-168: add popular items first
RECURSIVE AddPopular(_, _, _)
AddPopular(pop_ids, recs, num) ==
    IF pop_ids = <<>>
    THEN recs
    ELSE LET hit == FirstMatch(Head(pop_ids), recs)
             added == IF hit = 0 THEN recs ELSE Append(recs, materials[hit])
         IN  IF Len(added) >= num
             THEN added
             ELSE AddPopular(Tail(pop_ids), added, num)

\* variant: the fill loop stops one material short of num
RECURSIVE FillFromCatalog_StopsShort(_, _, _)
FillFromCatalog_StopsShort(i, recs, num) ==
    IF i > Len(materials)
    THEN recs
    ELSE LET added == IF materials[i] \notin Range(recs)
                      THEN Append(recs, materials[i])
                      ELSE recs
         IN  IF Len(added) >= num - 1
             THEN added
             ELSE FillFromCatalog_StopsShort(i + 1, added, num)

\* lines 171-175: fill from the materials list, starting at position i
RECURSIVE FillFromCatalog(_, _, _)
FillFromCatalog(i, recs, num) ==
    IF i > Len(materials)
    THEN recs
    ELSE LET added == IF materials[i] \notin Range(recs)
                      THEN Append(recs, materials[i])
                      ELSE recs
         IN  IF Len(added) >= num
             THEN added
             ELSE FillFromCatalog(i + 1, added, num)

\* variant: the final slice is dropped
Slice_Whole(recs, num) == recs

\* line 177: recs[:num]
Slice(recs, num) == Take(recs, num)

\* lines 137-177 for given results of the two store reads
Recommended(num, user_tags, consulted, pop_ids) ==
    LET personal == Personalized(user_tags, num)
        filled == IF Len(personal) < num
                  THEN FillFromCatalog(1, AddPopular(pop_ids, personal, num), num)
                  ELSE personal
    IN  [status |-> 200, num |-> num,
         user_tags |-> user_tags, consulted |-> consulted,
         pop_ids |-> pop_ids, recommendations |-> Slice(filled, num)]

\* the locals of a call do not outlive it: each handler starts from the
\* other handlers' initial locals
RecUnchanged ==
    /\ int_call' = NoIntCall
    /\ UNCHANGED <<kb, tfidf_kb, CHAT_SIM_THRESHOLD, similarity, materials, chats,
                   material_access, user_interactions, chat_call>>

Nums == 1..MaxNum

\* POST /recommend when the personalized pass already yields num results:
\* the popularity pipeline is not run
RecommendPersonalOnly ==
    /\ \E user_id \in Users, num \in Nums :
          /\ Len(Personalized(UserTags(user_id), num)) >= num
          /\ rec_call' = Recommended(num, UserTags(user_id), FALSE, <<>>)
    /\ RecUnchanged

\* POST /recommend when the personalized pass falls short (or find() raised):
\* the popularity pipeline is run
RecommendWithPopularity ==
    /\ \E user_id \in Users, num \in Nums :
       \E user_tags \in {UserTags(user_id), {}} :
          /\ Len(Personalized(user_tags, num)) < num
          /\ \E pop_ids \in Popularity(num) :
                rec_call' = Recommended(num, user_tags, TRUE, pop_ids)
    /\ RecUnchanged

\* POST /recommend when the popularity pipeline raises
RecommendPopularityRaises ==
    /\ \E user_id \in Users, num \in Nums :
       \E user_tags \in {UserTags(user_id), {}} :
          /\ Len(Personalized(user_tags, num)) < num
          /\ rec_call' = Recommended(num, user_tags, TRUE, <<>>)
    /\ RecUnchanged

\* ---------------------------------------------------------------- /interaction
\* lines 193-194: tags of the first catalog material with this id, else none
MaterialTags(material_id) ==
    LET hits == {i \in 1..Len(materials) : materials[i].id = material_id}
    IN  IF hits = {}
        THEN {}
        ELSE materials[CHOOSE i \in hits : \A j \in hits : i <= j].tags

\* a collection is the bag of its documents
insert_one(collection, doc) == collection (+) SetToBag({doc})

AccessDoc(user_id, material_id) ==
    [user_id |-> user_id, material_id |-> material_id]

InteractionDoc(user_id, material_id, tags) ==
    [user_id |-> user_id, material_id |-> material_id, tags |-> tags]

IntUnchanged ==
    /\ rec_call' = NoRecCall
    /\ UNCHANGED <<kb, tfidf_kb, CHAT_SIM_THRESHOLD, similarity, materials, chats,
                   chat_call>>

IdText == <<"m1", "m2", "m3", "m4", "m5", "m6">>
CatalogIds == {IdText[i] : i \in 1..MaxCatalog}
MaterialIds == CatalogIds   \* ids beyond a shorter catalog are unknown to it

\* variant: the tagged interaction is inserted before the access document
InteractionWrites_Swapped(user_id, material_id, tags) ==
    \/ /\ user_interactions' =
             insert_one(user_interactions, InteractionDoc(user_id, material_id, tags))
       /\ material_access' = insert_one(material_access, AccessDoc(user_id, material_id))
    \/ /\ user_interactions' =
             insert_one(user_interactions, InteractionDoc(user_id, material_id, tags))
       /\ material_access' = material_access
    \/ /\ material_access' = material_access
       /\ user_interactions' = user_interactions

\* lines 196-211: the two inserts share one try block
InteractionWrites(user_id, material_id, tags) ==
    \/ /\ material_access' = insert_one(material_access, AccessDoc(user_id, material_id))
       /\ user_interactions' =
             insert_one(user_interactions, InteractionDoc(user_id, material_id, tags))
    \/ /\ material_access' = insert_one(material_access, AccessDoc(user_id, material_id))
       /\ user_interactions' = user_interactions
    \/ /\ material_access' = material_access
       /\ user_interactions' = user_interactions

\* POST /interaction with a material_id
Interaction ==
    /\ BagCardinality(material_access) < MaxEvents
    /\ \E user_id \in Viewers, material_id \in MaterialIds :
          LET tags == MaterialTags(material_id)
          IN  /\ InteractionWrites(user_id, material_id, tags)
              /\ int_call' = [status |-> 200, user_id |-> user_id,
                              material_id |-> material_id, tags |-> tags]
    /\ IntUnchanged

\* POST /interaction without material_id
InteractionMissingId ==
    /\ int_call' = [NoIntCall EXCEPT !.status = 400]
    /\ UNCHANGED <<material_access, user_interactions>>
    /\ IntUnchanged

\* ---------------------------------------------------------------- specifications
\* line 45: catalogs of n materials with ids m1..mn in catalog order.  Ids are
\* unique within a catalog, as the Material table requires; on such catalogs
\* the record comparison of lines 164 and 172 is a comparison of ids.
Catalogs ==
    UNION {{[i \in 1..n |-> [id |-> IdText[i], tags |-> t[i]]] :
              t \in [1..n -> SUBSET Tags]} : n \in 0..MaxCatalog}

InitChat ==
    /\ \E n \in 0..MaxKB :
          /\ kb = KBOfSize(n)
          /\ similarity \in [1..n -> Scores]
          /\ tfidf_kb \in (IF n = 0 THEN {"None"} ELSE {"built", "None"})
    /\ CHAT_SIM_THRESHOLD \in Thresholds
    /\ materials = <<>>
    /\ chats = <<>>
    /\ material_access = EmptyBag
    /\ user_interactions = EmptyBag
    /\ chat_call = NoChatCall
    /\ rec_call = NoRecCall
    /\ int_call = NoIntCall

NextChat ==
    \/ ChatBadMessage
    \/ ChatWithoutIndex
    \/ ChatWithIndex
    \/ ChatQueryRaises

SpecChat == InitChat /\ [][NextChat]_vars

InitRec ==
    /\ kb = <<>>
    /\ similarity = <<>>
    /\ tfidf_kb = "None"
    /\ CHAT_SIM_THRESHOLD = 0
    /\ materials \in Catalogs
    /\ chats = <<>>
    /\ material_access = EmptyBag
    /\ user_interactions = EmptyBag
    /\ chat_call = NoChatCall
    /\ rec_call = NoRecCall
    /\ int_call = NoIntCall

NextRec ==
    \/ RecommendPersonalOnly
    \/ RecommendWithPopularity
    \/ RecommendPopularityRaises
    \/ Interaction
    \/ InteractionMissingId

SpecRec == InitRec /\ [][NextRec]_vars

\* ---------------------------------------------------------------- properties
BestScore == CHOOSE s \in Range(similarity) : \A x \in Range(similarity) : x <= s
BestPosition ==
    CHOOSE i \in 1..Len(similarity) :
        similarity[i] = BestScore /\ \A j \in 1..(i - 1) : similarity[j] # BestScore

Answered == chat_call.status = 200 /\ tfidf_kb = "built" /\ ~chat_call.raised

\* C2: over a non-empty knowledge base with best score s and threshold t, the
\* reply has source "kb", with the answer of the best entry, exactly when
\* s >= t; otherwise its source is "fallback".
C2_KbIffBestMeetsThreshold ==
    Answered =>
        /\ (chat_call.source = "kb") <=> (BestScore >= CHAT_SIM_THRESHOLD)
        /\ (BestScore >= CHAT_SIM_THRESHOLD) =>
              chat_call.response = kb[BestPosition].answer
        /\ (BestScore < CHAT_SIM_THRESHOLD) => chat_call.source = "fallback"

\* the boundary case: the best score equals the threshold, the best entry is
\* not the first one, and the reply comes from the knowledge base
C2_Witness ==
    /\ Answered
    /\ Len(kb) >= 2
    /\ BestScore = CHAT_SIM_THRESHOLD
    /\ BestPosition > 1
    /\ chat_call.source = "kb"

\* C3 as stated: a valid /chat request gets min(3, |kb|) matches whenever the
\* knowledge base has an entry, and none when it has no entry.
C3_Original ==
    chat_call.status = 200 =>
        Len(chat_call.top_matches) =
            (IF Len(kb) > 0 THEN (IF Len(kb) < 3 THEN Len(kb) ELSE 3) ELSE 0)

\* C3 amended: a valid /chat request gets min(3, |kb|) matches when the index
\* was built and the similarity query did not raise, whether or not the
\* threshold was met, and none otherwise.
C3_MatchCount ==
    chat_call.status = 200 =>
        Len(chat_call.top_matches) =
            (IF tfidf_kb = "built" /\ ~chat_call.raised
             THEN (IF Len(kb) < 3 THEN Len(kb) ELSE 3)
             ELSE 0)

\* more than three entries, threshold not met, three matches returned
C3_Witness ==
    /\ Answered
    /\ Len(kb) > 3
    /\ chat_call.source = "fallback"
    /\ Len(chat_call.top_matches) = 3

Outranks(i, j) ==
    \/ similarity[i] > similarity[j]
    \/ similarity[i] = similarity[j] /\ i < j

\* C4: top_matches lists the min(3, |kb|) best entries by descending score,
\* equal scores by lower corpus position first, so that its first entry is the
\* entry chosen as best.
C4_TopMatchesOrder ==
    Answered =>
        LET t == chat_call.top_idx
        IN  /\ Len(t) = (IF Len(kb) < 3 THEN Len(kb) ELSE 3)
            /\ \A k \in 1..Len(t) :
                  chat_call.top_matches[k] =
                     [question |-> kb[t[k]].question, score |-> similarity[t[k]]]
            /\ \A k, l \in 1..Len(t) : k < l => Outranks(t[k], t[l])
            /\ \A k \in 1..Len(t) : \A p \in (1..Len(kb)) \ Range(t) :
                  Outranks(t[k], p)
            /\ t[1] = BestPosition

\* C8: with an empty knowledge base, or when the similarity query raises, a
\* valid /chat request still gets a 200 reply, with source "fallback" and no
\* matches.
C8_FallbackWithoutRanking ==
    (chat_call.message = VALID_MESSAGE /\ (Len(kb) = 0 \/ chat_call.raised)) =>
        /\ chat_call.status = 200
        /\ chat_call.source = "fallback"
        /\ chat_call.top_matches = <<>>

\* the query raised although the best score would have met the threshold
C8_Witness ==
    /\ chat_call.status = 200
    /\ chat_call.raised
    /\ Len(kb) > 0
    /\ BestScore >= CHAT_SIM_THRESHOLD

ExpectedResponse(c) ==
    IF tfidf_kb = "None" THEN SORRY
    ELSE IF c.raised THEN NLP_ERROR
    ELSE IF BestScore >= CHAT_SIM_THRESHOLD THEN kb[BestPosition].answer
    ELSE NO_MATCH

ExpectedSource(c) ==
    IF tfidf_kb = "built" /\ ~c.raised /\ BestScore >= CHAT_SIM_THRESHOLD
    THEN "kb"
    ELSE "fallback"

\* C9: a /chat call with a valid message appends one document to chats, with
\* the response and source of its reply, or, when the insert fails, appends
\* nothing; the reply is the same in both cases and the status is 200.
C9_LogCarriesReply ==
    [][(chat_call'.status # 400) =>
          LET c == chat_call'
              doc == [user_id |-> c.user_id, message |-> c.message,
                      response |-> c.response, source |-> c.source]
          IN  /\ c.status = 200
              /\ c.response = ExpectedResponse(c)
              /\ c.source = ExpectedSource(c)
              /\ \/ c.logged /\ chats' = Append(chats, doc)
                 \/ ~c.logged /\ chats' = chats]_<<chats, chat_call>>

\* an answer from the knowledge base was logged
C9_Witness ==
    /\ chat_call.status = 200
    /\ chat_call.logged
    /\ chat_call.source = "kb"
    /\ Len(chats) = 1
    /\ chats[1].source = "kb"
    /\ chats[1].response = chat_call.response

Ids(recs) == {recs[i].id : i \in 1..Len(recs)}
Position(m) == CHOOSE i \in 1..Len(materials) : materials[i] = m
Shared(m) == Cardinality(rec_call.user_tags \cap m.tags)
Matching == {i \in 1..Len(materials) : Shared(materials[i]) > 0}
PrefixLen ==
    IF Cardinality(Matching) < rec_call.num THEN Cardinality(Matching) ELSE rec_call.num
Ahead(m, n) ==
    \/ Shared(m) > Shared(n)
    \/ Shared(m) = Shared(n) /\ Position(m) < Position(n)

C5_PersonalizedPrefix ==
    (rec_call.status = 200 /\ rec_call.user_tags # {}) =>
        LET r == rec_call.recommendations
        IN  /\ Len(r) >= PrefixLen
            /\ \A k \in 1..PrefixLen : r[k] \in {materials[i] : i \in Matching}
            /\ \A k, l \in 1..PrefixLen : k < l => Ahead(r[k], r[l])
            /\ \A k \in 1..PrefixLen :
                  \A i \in Matching :
                     materials[i] \notin {r[l] : l \in 1..PrefixLen}
                        => Ahead(r[k], materials[i])
            /\ \A k \in (PrefixLen + 1)..Len(r) : Shared(r[k]) = 0

\* the scenario of the specification: [m1{python}, m2{go}], tags {go}, num 2
C5_Witness ==
    /\ rec_call.status = 200
    /\ materials = <<[id |-> "m1", tags |-> {"python"}], [id |-> "m2", tags |-> {"go"}]>>
    /\ rec_call.user_tags = {"go"}
    /\ rec_call.num = 2
    /\ rec_call.recommendations = <<materials[2], materials[1]>>

InCatalog(id) == \E i \in 1..Len(materials) : materials[i].id = id
MaterialOf(id) == materials[CHOOSE i \in 1..Len(materials) : materials[i].id = id]

C7_CatalogOnly ==
    (/\ rec_call.status = 200
     /\ rec_call.user_tags = {}
     /\ rec_call.pop_ids = <<>>
     /\ Len(materials) >= rec_call.num) =>
        rec_call.recommendations = SubSeq(materials, 1, rec_call.num)

\* the popularity read failed although access events exist
C7_Witness ==
    /\ rec_call.status = 200
    /\ rec_call.user_tags = {}
    /\ rec_call.pop_ids = <<>>
    /\ material_access # EmptyBag
    /\ rec_call.num = 2
    /\ Len(materials) = 2
    /\ rec_call.recommendations = materials

CatalogTags(id) == IF InCatalog(id) THEN MaterialOf(id).tags ELSE {}

\* C10 as stated: a 200 reply of /interaction means one access event and one
\* tagged-interaction event were stored, so both stores hold equally many
\* events.
C10_Original ==
    /\ BagCardinality(material_access) = BagCardinality(user_interactions)
    /\ int_call.status = 200 =>
          /\ BagIn([user_id |-> int_call.user_id,
                    material_id |-> int_call.material_id], material_access)
          /\ BagIn([user_id |-> int_call.user_id,
                    material_id |-> int_call.material_id,
                    tags |-> CatalogTags(int_call.material_id)], user_interactions)

\* C10 amended: a request with a material_id gets 200 and stores one access
\* event and one tagged-interaction event (tags of the catalog material, or
\* none) when neither insert fails, the access event alone when only the
\* second insert fails, and nothing when the first fails; so there are never
\* more tagged-interaction events than access events.  A request without
\* material_id gets 400 and stores nothing.
C10_InteractionWrites ==
    [][LET c == int_call'
           a == [user_id |-> c.user_id, material_id |-> c.material_id]
           u == [user_id |-> c.user_id, material_id |-> c.material_id,
                 tags |-> CatalogTags(c.material_id)]
       IN  /\ c.status # 200 =>
                 /\ material_access' = material_access
                 /\ user_interactions' = user_interactions
           /\ c.status = 200 =>
                 \/ /\ material_access' = material_access (+) SetToBag({a})
                    /\ user_interactions' = user_interactions (+) SetToBag({u})
                 \/ /\ material_access' = material_access (+) SetToBag({a})
                    /\ user_interactions' = user_interactions
                 \/ /\ material_access' = material_access
                    /\ user_interactions' = user_interactions
           /\ BagCardinality(user_interactions') <= BagCardinality(material_access')
      ]_<<material_access, user_interactions, int_call>>

\* both events of a view of a tagged material are stored
C10_Witness ==
    /\ int_call.status = 200
    /\ int_call.tags # {}
    /\ BagIn([user_id |-> int_call.user_id,
              material_id |-> int_call.material_id], material_access)
    /\ BagIn([user_id |-> int_call.user_id,
              material_id |-> int_call.material_id,
              tags |-> int_call.tags], user_interactions)

====
